---- MODULE Spec2Model ----
(***************************************************************************)
(* speakleash-forum-tools: the crawl -> scrape -> merge -> manifest        *)
(* pipeline (core.py, crawler_manager.py, scraper.py, archive_manager.py), *)
(* the pagination resolver (forum_engines.py) and the per-topic page loop  *)
(* (scraper.py).                                                           *)
(*                                                                         *)
(* A URL or href string is a record [form, f, t, start]:                   *)
(*   form = "abs"   https://forum/viewtopic.php?f=..&t=..&start=..         *)
(*   form = "rel"   ./viewtopic.php?f=..&t=..&start=..  (relative href)    *)
(*   form = "ext"   https://other-host/viewtopic.php?...                   *)
(*   form = "glued" DATASET_URL + "ttps://other-host/viewtopic.php?..."     *)
(*   form = "empty" the empty string                                       *)
(* f, t, start are the query parameters (0: absent).                       *)
(***************************************************************************)
EXTENDS Integers, Sequences, FiniteSets, TLC

\* ----- bounds of the model ------------------------------------------------
NTopics == 2          \* topics the forum exposes
MaxSaveState == 2     \* SAVE_STATE (checkpoint interval) ranges over 1..MaxSaveState
MinLenTxt == 2        \* MIN_LEN_TXT, scaled down
MaxRuns == 1          \* kills, exceptions and re-runs of the pipeline
MaxStart == 1         \* the pages of a topic are start = 0..MaxStart
MaxFetch == 3         \* page fetches of one topic that the model follows

VARIABLES
    \* the forum and the configuration (fixed during a behaviour)
    forum,            \* [sitemap, prof]: what the site serves
    forceCrawl,       \* ConfigManager.force_crawl
    saveState,        \* settings["SAVE_STATE"]
    \* persisted state in scraper_workspace/<dataset>/
    topicsFile,       \* Topics_URLs_-_<dataset>.csv          (rows [url, title])
    visitedFile,      \* Visited_URLs_-_<dataset>.csv         (rows [url, title, visited, skipped])
    visitedHeader,    \* the header lines of that file (<<>>: the file does not exist)
    shards,           \* temp_scraper_data/*.jsonl.zst        (sealed shards, each a sequence of documents)
    merged,           \* archive_merged-JSONL_ZST/<dataset>.jsonl.zst
    merge_ret,        \* docs_num, total_chars: what merge_archives returned to core
    manifest,         \* <dataset>.manifest  ([written, documents, characters])
    \* the running process
    pc,               \* position of the coordinator
    runs,             \* kills, exceptions and re-runs so far
    forum_topics,     \* CrawlerManager.forum_topics
    visited_topics,   \* CrawlerManager.visited_topics
    todo,             \* topics_minus_visited
    finished,         \* positions of todo whose worker has returned, in order of completion
    total, added, skipped, totalDocs,   \* counters of _scrap_txt_mp
    buffer,           \* visited_urls_dataframe
    chunk,            \* the Archive's current_chunk_incomplete
    meta,             \* meta of the result drained last
    \* a worker inside _get_item_text
    wcfg,             \* [engine, pagination]: engine_type and the pagination selectors
    served,           \* the pages of the topic served so far: start -> page
    wpc,              \* position of the worker
    wurl,             \* url
    wpages,           \* the URLs fetched for this topic, in order
    wprev, wlink,     \* the last call of _get_next_page_link: url_now and the result
    wtopic,           \* the topic of the task the worker is in
    wgets,            \* session.get calls of the worker in its current task
    wslept,           \* time.sleep(time_sleep) was called since the last session.get
    wtext,            \* text: the posts collected from the pages of the topic so far
    \* crawl_forum
    site,             \* [slash, main, page]: DATASET_URL ends with "/", the main page, the thread pages
    forum_threads,    \* ForumEnginesManager.forum_threads (a list of dicts; here of sets of URLs)
    threads_topics,   \* ForumEnginesManager.threads_topics (URL -> title; here rows)
    cpc,              \* position of crawl_forum
    cidx, cleft,      \* the dict of forum_threads being iterated and its items still to come
    crawls,           \* calls of _get_thread_topics so far
    farg, fres        \* the arguments of the call a specification follows on its own, and its outcome

pageVars == <<wcfg, served, wpc, wurl, wpages, wprev, wlink, wtopic, wgets, wslept, wtext>>

crawlVars == <<site, forum_threads, threads_topics, cpc, cidx, cleft, crawls>>

confVars == <<farg, fres>>

vars == <<forum, forceCrawl, saveState, topicsFile, visitedFile, visitedHeader, shards, merged, merge_ret,
          manifest, pc, runs, forum_topics, visited_topics, todo, finished, total,
          added, skipped, totalDocs, buffer, chunk, meta, pageVars, crawlVars, confVars>>

\* ----- strings ------------------------------------------------------------
Range(s) == {s[i] : i \in DOMAIN s}

Body(n) == [i \in 1..n |-> "a"]

Whitespace == {" ", "\n"}

RECURSIVE LStrip(_)
LStrip(s) == IF s # <<>> /\ Head(s) \in Whitespace THEN LStrip(Tail(s)) ELSE s

RECURSIVE RStrip(_)
RStrip(s) ==
    IF s # <<>> /\ s[Len(s)] \in Whitespace THEN RStrip(SubSeq(s, 1, Len(s) - 1)) ELSE s

\* str.strip()
Strip(s) == RStrip(LStrip(s))

\* ----- URLs ---------------------------------------------------------------
Url(form, f, t, start) == [form |-> form, f |-> f, t |-> t, start |-> start]

TopicUrl(t) == Url("abs", 1, t, 0)

\* urllib.parse.urljoin(DATASET_URL, href)
urljoin(href) == IF href.form = "rel" THEN [href EXCEPT !.form = "abs"] ELSE href

\* DATASET_URL in url
InDataset(url) == url.form = "abs"

\* ----- robots.txt ---------------------------------------------------------
\* RobotFileParser.can_fetch("*", s): the rules are matched as prefixes of the
\* path of s as it is given, so a relative href (no leading "/") matches none.
can_fetch(s, disallow) == ~(s.form \in {"abs", "ext"} /\ s.t \in disallow)

\* ----- the forum ----------------------------------------------------------
Topics == 1..NTopics

Profiles ==
    { [form |-> "abs", denied |-> FALSE, ok |-> TRUE,  big |-> FALSE, posts |-> <<Body(MinLenTxt + 1)>>],
      [form |-> "abs", denied |-> FALSE, ok |-> TRUE,  big |-> FALSE, posts |-> <<Body(MinLenTxt)>>],
      [form |-> "abs", denied |-> FALSE, ok |-> FALSE, big |-> FALSE, posts |-> <<>>],
      [form |-> "abs", denied |-> FALSE, ok |-> TRUE,  big |-> FALSE, posts |-> <<>>],
      [form |-> "abs", denied |-> FALSE, ok |-> TRUE,  big |-> TRUE,  posts |-> <<Body(MinLenTxt + 1)>>],
      [form |-> "abs", denied |-> TRUE,  ok |-> TRUE,  big |-> FALSE, posts |-> <<Body(MinLenTxt + 1)>>],
      [form |-> "rel", denied |-> TRUE,  ok |-> TRUE,  big |-> FALSE, posts |-> <<Body(MinLenTxt + 1)>>] }

Disallow == {t \in Topics : forum.prof[t].denied}

\* the anchor of topic t on the thread page
Anchor(t) == [href |-> Url(forum.prof[t].form, 1, t, 0), text |-> "anchor"]

\* ----- discovery ----------------------------------------------------------
\* the substrings of an href that the allow / deny lists can name
HrefParts(href) == {"viewtopic"} \cup (IF href.start > 0 THEN {"start"} ELSE {})

\* _crawler_search_filter without the blacklist test of the whitelist branch
KeepHrefDenyIgnored(href, whitelist, blacklist, disallow, force) ==
    IF whitelist # {}
    THEN IF \E y \in whitelist : y \in HrefParts(href)
         THEN can_fetch(href, disallow) \/ force
         ELSE FALSE
    ELSE IF blacklist # {} /\ \E y \in blacklist : y \in HrefParts(href)
         THEN FALSE
         ELSE can_fetch(href, disallow) \/ force

\* the filter of _crawler_search_filter and _urls_generator
KeepHref(href, whitelist, blacklist, disallow, force) ==
    IF whitelist # {}
    THEN IF \E y \in whitelist : y \in HrefParts(href)
         THEN IF blacklist # {} /\ \E y \in blacklist : y \in HrefParts(href)
              THEN FALSE
              ELSE can_fetch(href, disallow) \/ force
         ELSE FALSE
    ELSE IF blacklist # {} /\ \E y \in blacklist : y \in HrefParts(href)
         THEN FALSE
         ELSE (whitelist = {} \/ blacklist = {}) /\ (can_fetch(href, disallow) \/ force)

\* the engine's topics_whitelist / topics_blacklist (PhpBBCrawler)
topics_whitelist == {}
topics_blacklist == {}

\* _urls_generator over the sitemap's pages (absolute URLs); titles are ""
UrlsGenerator ==
    LET F[t \in 0..NTopics] ==
            IF t = 0 THEN <<>>
            ELSE IF forum.sitemap /\ InDataset(TopicUrl(t))
                    /\ KeepHref(TopicUrl(t), topics_whitelist, topics_blacklist, Disallow, forceCrawl)
                 THEN Append(F[t - 1], [url |-> TopicUrl(t), title |-> ""])
                 ELSE F[t - 1]
    IN F[NTopics]

\* url_return of _crawler_search_filter: urljoin(forum_url, href), and
\* forum_url + href[1:] when forum_url is not a substring of that
UrlReturn(href) ==
    LET url_return == urljoin(href) IN
    IF InDataset(url_return) THEN url_return ELSE [href EXCEPT !.form = "glued"]

\* crawl_forum: the topic anchors of the thread page through _crawler_search_filter
CrawlForum ==
    LET F[t \in 0..NTopics] ==
            IF t = 0 THEN <<>>
            ELSE IF KeepHref(Anchor(t).href, topics_whitelist, topics_blacklist, Disallow, forceCrawl)
                 THEN Append(F[t - 1], [url |-> UrlReturn(Anchor(t).href), title |-> Anchor(t).text])
                 ELSE F[t - 1]
    IN F[NTopics]

\* the float nan that pandas holds for an empty field of a CSV file (not a str)
NaN == "nan"

\* pandas.read_csv: an empty Topic_Titles field is read as nan
read_csv(rows) ==
    [i \in DOMAIN rows |-> IF rows[i].title = "" THEN [rows[i] EXCEPT !.title = NaN] ELSE rows[i]]

\* DataFrame.to_csv: nan is written as an empty field
to_csv(rows) ==
    [i \in DOMAIN rows |-> IF rows[i].title = NaN THEN [rows[i] EXCEPT !.title = ""] ELSE rows[i]]

\* DataFrame.drop_duplicates(subset='Topic_URLs'): the first row of each URL
DropDuplicates(rows) ==
    LET F[i \in 0..Len(rows)] ==
            IF i = 0 THEN <<>>
            ELSE IF \E j \in 1..(i - 1) : rows[j].url = rows[i].url
                 THEN F[i - 1]
                 ELSE Append(F[i - 1], rows[i])
    IN F[Len(rows)]

\* start_crawler without the test of self.forum_topics.empty
DiscoverAnew(loaded) ==
    IF UrlsGenerator # <<>> THEN DropDuplicates(UrlsGenerator)
    ELSE DropDuplicates(CrawlForum)

\* start_crawler without the call of crawl_forum
DiscoverSitemapOnly(loaded) ==
    IF loaded # <<>> THEN loaded
    ELSE DropDuplicates(UrlsGenerator)

\* start_crawler: the topics table of this run
Discover(loaded) ==
    IF loaded # <<>> THEN loaded
    ELSE IF UrlsGenerator # <<>> THEN DropDuplicates(UrlsGenerator)
    ELSE DropDuplicates(CrawlForum)

GetUrlsToScrapAll(topics, visited) == topics

\* get_urls_to_scrap subtracting only the rows with Skip_flag 0
GetUrlsToScrapRetrySkipped(topics, visited) ==
    IF visited = <<>> THEN topics
    ELSE SelectSeq(topics,
             LAMBDA r : ~\E i \in DOMAIN visited :
                            visited[i].visited = 1 /\ visited[i].skipped = 0 /\ visited[i].url = r.url)

\* get_urls_to_scrap
GetUrlsToScrap(topics, visited) ==
    IF visited = <<>> THEN topics
    ELSE SelectSeq(topics,
             LAMBDA r : ~\E i \in DOMAIN visited :
                            visited[i].visited = 1 /\ visited[i].url = r.url)

\* ----- the worker ---------------------------------------------------------
\* text of one page: strip(post) + "\n" for every post
RECURSIVE PageText(_)
PageText(posts) ==
    IF posts = <<>> THEN <<>> ELSE Strip(Head(posts)) \o <<"\n">> \o PageText(Tail(posts))

\* _get_item_text without the test of len(response.content)
GetItemTextAnySize(url) ==
    IF forum.prof[url.t].ok
    THEN [tuple |-> TRUE, text |-> PageText(forum.prof[url.t].posts), title |-> "page"]
    ELSE [tuple |-> TRUE, text |-> <<>>, title |-> ""]

\* _get_item_text of a single-page topic: (text, topic_title), or the bare
\* text '' when the body exceeds 15 MB
GetItemText(url) ==
    IF forum.prof[url.t].ok
    THEN IF forum.prof[url.t].big
         THEN [tuple |-> FALSE, text |-> <<>>, title |-> ""]
         ELSE [tuple |-> TRUE, text |-> PageText(forum.prof[url.t].posts), title |-> "page"]
    ELSE [tuple |-> TRUE, text |-> <<>>, title |-> ""]

\* `url in all_visited_urls`: all_visited_urls is the pandas Series
\* visited_topics['Topic_URLs'], and `in` on a Series tests its index labels
\* (integers 0..n-1; a URL is a string label)
SeriesLabels(series) == {[int |-> i - 1] : i \in 1..Len(series)}
UrlInSeries(url, series) == [str |-> url] \in SeriesLabels(series)

\* _process_item with len(txt) in place of len(txt_strip)
ProcessItemRawLen(url, all_visited_urls) ==
    IF ~UrlInSeries(url, all_visited_urls)
    THEN LET r == GetItemText(url) IN
         IF ~r.tuple
         THEN [txt  |-> <<>>,
               meta |-> [url |-> url, topic_title |-> "", characters |-> 0, skip |-> "error"]]
         ELSE IF r.text # <<>>
         THEN [txt  |-> Strip(r.text),
               meta |-> [url |-> url, topic_title |-> r.title,
                         characters |-> Len(r.text), skip |-> "none"]]
         ELSE [txt  |-> <<>>,
               meta |-> [url |-> url, topic_title |-> r.title,
                         characters |-> 0, skip |-> "error"]]
    ELSE [txt  |-> <<>>,
          meta |-> [url |-> url, topic_title |-> "", characters |-> 0, skip |-> "visited"]]

\* _process_item: the try block, r being what _get_item_text returned
ProcessText(url, r) ==
    IF ~r.tuple
    THEN [txt  |-> <<>>,
          meta |-> [url |-> url, topic_title |-> "", characters |-> 0, skip |-> "error"]]
    ELSE IF r.text # <<>>
    THEN [txt  |-> Strip(r.text),
          meta |-> [url |-> url, topic_title |-> r.title,
                    characters |-> Len(Strip(r.text)), skip |-> "none"]]
    ELSE [txt  |-> <<>>,
          meta |-> [url |-> url, topic_title |-> r.title,
                    characters |-> 0, skip |-> "error"]]

\* _process_item
ProcessItem(url, all_visited_urls) ==
    IF ~UrlInSeries(url, all_visited_urls)
    THEN ProcessText(url, GetItemText(url))
    ELSE [txt  |-> <<>>,
          meta |-> [url |-> url, topic_title |-> "", characters |-> 0, skip |-> "visited"]]

\* ----- the pagination resolver ----------------------------------------------
Starts == 0..MaxStart

NoLink == Url("empty", 0, 0, 0)      \* '' or False

\* selectors: "class" is "<value>", "attr" is "<name> :: <value>",
\* "tag" is "<tag> >> <name> :: <value>"
PhpBBPagination == <<[shape |-> "class", name |-> "pagination-arrow"],
                     [shape |-> "class", name |-> "next"]>>
OtherPagination == <<[shape |-> "class", name |-> "ipsPagination_next"],
                     [shape |-> "tag",   name |-> "span >> class :: pagination"]>>

WorkerConfigs == { [engine |-> "phpbb", pagination |-> PhpBBPagination],
                   [engine |-> "invision", pagination |-> OtherPagination] }

\* A page (soup) is [buttons, anchors]: buttons[i] are the elements that the
\* i-th pagination selector finds, each [href, arrow] (arrow: it has a child
\* i.fa.fa-arrow-right; href "missing": neither it nor a child <a> has one);
\* anchors are the hrefs of the page's <a> elements that carry start=.
\* (the pages of topic t)
ButtonHrefs(t) ==
    {Url(fm, 1, t, st) : fm \in {"abs", "rel"}, st \in Starts}
        \cup {Url("ext", 1, t, 0), NoLink, Url("missing", 0, 0, 0)}

FirstButtons(t) ==
    {<<>>} \cup {<<[href |-> h, arrow |-> TRUE]>> : h \in ButtonHrefs(t)}
           \cup {<<[href |-> Url("abs", 1, t, 1), arrow |-> FALSE]>>}

SecondButtons(t) == {<<>>, <<[href |-> Url("abs", 1, t, 1), arrow |-> TRUE]>>}

AnchorSets(t) == { {}, {Url("rel", 1, t, st) : st \in 0..(MaxStart + 1)} \cup {Url("rel", 1, t + 1, 1)} }

PageContents(t) ==
    {[buttons |-> <<b1, b2>>, anchors |-> a] :
        b1 \in FirstButtons(t), b2 \in SecondButtons(t), a \in AnchorSets(t)}

\* what forum_content_class finds on the page at url: here every page of a
\* topic carries one post of MinLenTxt characters
PagePosts(url) == <<Body(MinLenTxt)>>

\* the element the selector settles on: <<>> or <<element>>
NextButton(sel, found, cfg) ==
    IF found = <<>> THEN <<>>
    ELSE IF sel.shape = "class" /\ cfg.engine = "phpbb"
            /\ \E k \in DOMAIN cfg.pagination : cfg.pagination[k].name = "pagination-arrow"
         THEN LET withArrow == {k \in DOMAIN found : found[k].arrow} IN
              IF withArrow = {} THEN <<>>
              ELSE <<found[CHOOSE k \in withArrow : \A l \in withArrow : k <= l]>>
         ELSE <<found[1]>>

\* the phpBB fallback with `key_num >= startnum_num`
PhpBBFallbackNotStrict(url_now, soup) ==
    LET page_no == {h \in soup.anchors :
                        h.start # 0 /\ h.f = url_now.f /\ h.t = url_now.t}
        above == {h \in page_no : h.start >= url_now.start}
    IN IF above = {} THEN [kind |-> "none", href |-> NoLink]
       ELSE [kind |-> "link",
             href |-> CHOOSE h \in above : \A g \in above : h.start <= g.start]

\* the phpBB fallback: the anchor with the smallest start above the current one
PhpBBFallback(url_now, soup) ==
    LET page_no == {h \in soup.anchors :
                        h.start # 0 /\ h.f = url_now.f /\ h.t = url_now.t}
        above == {h \in page_no : h.start > url_now.start}
    IN IF above = {} THEN [kind |-> "none", href |-> NoLink]
       ELSE [kind |-> "link",
             href |-> CHOOSE h \in above : \A g \in above : h.start <= g.start]

RECURSIVE NextPageLinkFrom(_, _, _, _)
NextPageLinkFrom(i, url_now, soup, cfg) ==
    IF i > Len(cfg.pagination)
    THEN IF cfg.engine = "phpbb" THEN PhpBBFallback(url_now, soup)
         ELSE [kind |-> "none", href |-> NoLink]
    ELSE LET next_button == NextButton(cfg.pagination[i], soup.buttons[i], cfg) IN
         IF next_button = <<>> THEN NextPageLinkFrom(i + 1, url_now, soup, cfg)
         ELSE LET next_page == next_button[1].href IN
              IF next_page.form = "missing" THEN [kind |-> "raise", href |-> NoLink]
              ELSE IF next_page = url_now THEN NextPageLinkFrom(i + 1, url_now, soup, cfg)
              ELSE IF next_page # NoLink THEN [kind |-> "link", href |-> next_page]
              ELSE NextPageLinkFrom(i + 1, url_now, soup, cfg)

\* _get_next_page_link
GetNextPageLink(url_now, soup, cfg) == NextPageLinkFrom(1, url_now, soup, cfg)

\* ----- the pool ------------------------------------------------------------
PROCESSES == 2        \* settings["PROCESSES"]

\* the tasks the workers are running: task i is taken from the queue once
\* fewer than PROCESSES of the tasks before it are still running
Running(n, fin) ==
    {i \in 1..n : /\ i \notin Range(fin)
                  /\ Cardinality({j \in 1..(i - 1) : j \notin Range(fin)}) < PROCESSES}

imap_unordered(fin, n) == IF n < Len(fin) THEN {fin[n + 1]} ELSE {}

\* pool.imap: the next result handed to the loop is the one of the next task
\* submitted, once its worker has returned
imap(fin, n) == {i \in Range(fin) : i = n + 1}

\* ----- the coordinator ----------------------------------------------------
NoMeta == [url |-> Url("empty", 0, 0, 0), topic_title |-> "", characters |-> 0, skip |-> "none"]

\* `if txt and len(txt) > MIN_LEN_TXT`
IsDocument(txt) == txt # <<>> /\ Len(txt) > MinLenTxt

VisitTempNoSkipRow(isDoc, m) ==
    IF isDoc
    THEN <<[url |-> m.url, title |-> m.topic_title, visited |-> 1, skipped |-> 0]>>
    ELSE <<>>

\* a visit_temp that marks the row of an added document as skipped
VisitTempDocSkipped(isDoc, m) ==
    IF isDoc \/ m.skip # "visited"
    THEN <<[url |-> m.url, title |-> m.topic_title, visited |-> 1, skipped |-> 1]>>
    ELSE <<>>

\* visit_temp: the rows a drained result adds to visited_urls_dataframe
VisitTemp(isDoc, m) ==
    IF isDoc
    THEN <<[url |-> m.url, title |-> m.topic_title, visited |-> 1, skipped |-> 0]>>
    ELSE IF m.skip # "visited"
         THEN <<[url |-> m.url, title |-> m.topic_title, visited |-> 1, skipped |-> 1]>>
         ELSE <<>>

CheckpointDueNoAdded(n, a, interval) == n % interval = 0

\* `if total % SAVE_STATE == 0 and added > 0`
CheckpointDue(n, a, interval) == n % interval = 0 /\ a > 0

\* to_csv with mode = 'w': the rows replace the file
add_to_visited_file_w(file, urls_dataframe) == to_csv(urls_dataframe)

\* add_to_visited_file with its defaults head = False, mode = 'a'
add_to_visited_file(file, urls_dataframe) == file \o to_csv(urls_dataframe)

\* the columns of the visited table
VisitedColumns == <<"Topic_URLs", "Topic_Titles", "Visited_flag", "Skip_flag">>

\* the header lines of a file after to_csv(header = head, mode = mode): 'w'
\* starts the file anew, and head = True writes the column names
to_csv_header(lines, head, mode) ==
    (IF mode = "w" THEN <<>> ELSE lines) \o (IF head THEN <<VisitedColumns>> ELSE <<>>)

\* create_empty_file: an existing file is left alone, a missing one is written
\* with head = True, mode = 'w' and an empty dataframe
create_empty_file(lines) ==
    IF lines # <<>> THEN lines ELSE to_csv_header(lines, TRUE, "w")

\* an add_to_visited_file that writes the column names with every call
add_to_visited_file_header_again(lines) == to_csv_header(lines, TRUE, "a")

\* add_to_visited_file with its defaults head = False, mode = 'a': no header line
add_to_visited_file_header(lines) == to_csv_header(lines, FALSE, "a")

\* the record Archive.add_data writes
Document(txt, m) ==
    [text |-> txt,
     meta |-> [url |-> m.url, topic_title |-> m.topic_title, characters |-> m.characters]]

MergeArchivesNoDedup(files) ==
    LET F[i \in 0..Len(files)] == IF i = 0 THEN <<>> ELSE F[i - 1] \o files[i]
    IN F[Len(files)]

\* merge_archives: the records of all shards, the first of each URL
MergeArchives(files) ==
    LET All == MergeArchivesNoDedup(files)
        G[i \in 0..Len(All)] ==
            IF i = 0 THEN <<>>
            ELSE LET ar_merge == G[i - 1] IN
                 IF \E j \in DOMAIN ar_merge : ar_merge[j].meta.url = All[i].meta.url
                 THEN ar_merge
                 ELSE Append(ar_merge, All[i])
    IN G[Len(All)]

NoReturn == [total_docs |-> 0, total_chars |-> 0]

\* merge_archives without the test of urls_visited
MergeCountsAll(files) ==
    LET All == MergeArchivesNoDedup(files)
        C[i \in 0..Len(All)] ==
            IF i = 0 THEN NoReturn
            ELSE LET c == C[i - 1] IN
                 [total_docs |-> c.total_docs + 1,
                  total_chars |-> c.total_chars + All[i].meta.characters]
    IN C[Len(All)]

\* merge_archives: total_docs and total_chars, counted while the records are re-packed
MergeCounts(files) ==
    LET All == MergeArchivesNoDedup(files)
        C[i \in 0..Len(All)] ==
            IF i = 0 THEN [urls_visited |-> {}, total_docs |-> 0, total_chars |-> 0]
            ELSE LET c == C[i - 1] IN
                 IF All[i].meta.url \notin c.urls_visited
                 THEN [urls_visited |-> c.urls_visited \cup {All[i].meta.url},
                       total_docs |-> c.total_docs + 1,
                       total_chars |-> c.total_chars + All[i].meta.characters]
                 ELSE c
        ret == C[Len(All)]
    IN [total_docs |-> ret.total_docs, total_chars |-> ret.total_chars]

\* the sum of meta.characters over the records of an archive
RECURSIVE SumChars(_)
SumChars(docs) ==
    IF docs = <<>> THEN 0 ELSE Head(docs).meta.characters + SumChars(Tail(docs))

NoManifest == [written |-> FALSE, documents |-> 0, characters |-> 0]

NoCall == [kind |-> "none", href |-> NoLink]

NoVerdict == [done |-> FALSE, keep |-> FALSE]

\* no filter call is followed
ConfOff ==
    /\ farg = "none"
    /\ fres = NoVerdict

\* crawl_forum is not followed
CrawlOff ==
    /\ site = [slash |-> FALSE, main |-> {}, page |-> <<>>]
    /\ forum_threads = <<>>
    /\ threads_topics = <<>>
    /\ cpc = "off"
    /\ cidx = 0
    /\ cleft = {}
    /\ crawls = 0

\* no worker is followed
PageOff ==
    /\ wcfg = [engine |-> "phpbb", pagination |-> PhpBBPagination]
    /\ served = <<>>
    /\ wpc = "off"
    /\ wurl = NoLink
    /\ wpages = <<>>
    /\ wprev = NoLink
    /\ wlink = NoCall
    /\ wtopic = 1
    /\ wgets = 0
    /\ wslept = FALSE
    /\ wtext = <<>>

Init ==
    /\ PageOff
    /\ CrawlOff
    /\ ConfOff
    /\ forum \in [sitemap : BOOLEAN, prof : [Topics -> Profiles]]
    /\ forceCrawl \in BOOLEAN
    /\ saveState \in 1..MaxSaveState
    /\ topicsFile = <<>>
    /\ visitedFile = <<>>
    /\ visitedHeader = <<>>
    /\ shards = <<>>
    /\ merged = <<>>
    /\ merge_ret = NoReturn
    /\ manifest = NoManifest
    /\ pc = "start"
    /\ runs = 0
    /\ forum_topics = <<>>
    /\ visited_topics = <<>>
    /\ todo = <<>>
    /\ finished = <<>>
    /\ total = 0 /\ added = 0 /\ skipped = 0 /\ totalDocs = 0
    /\ buffer = <<>>
    /\ chunk = <<>>
    /\ meta = NoMeta

static == <<forum, forceCrawl, saveState>>
counters == <<total, added, skipped, totalDocs>>

\* CrawlerManager.__init__ (_check_dataset_files) and start_crawler
StartCrawler ==
    /\ pc = "start"
    /\ LET found == Discover(DropDuplicates(read_csv(topicsFile))) IN
        /\ forum_topics' = found
        /\ topicsFile' = IF found # <<>> THEN to_csv(found) ELSE topicsFile
        /\ pc' = IF found # <<>> THEN "crawled" ELSE "done"
    /\ visited_topics' = DropDuplicates(read_csv(visitedFile))
    /\ UNCHANGED <<confVars, pageVars, crawlVars, static, finished, visitedFile, visitedHeader, shards, merged, merge_ret, manifest, runs, todo,
                   counters, buffer, chunk, meta>>

\* Scraper.__init__, get_urls_to_scrap and the head of _scrap_txt_mp
StartScraper ==
    /\ pc = "crawled"
    /\ LET left == GetUrlsToScrap(forum_topics, visited_topics) IN
        /\ todo' = left
        /\ pc' = IF Len(left) # 0 THEN "loop" ELSE "scraped"
    /\ totalDocs' = Cardinality({i \in DOMAIN visited_topics : visited_topics[i].visited = 1})
                    - Cardinality({i \in DOMAIN visited_topics : visited_topics[i].skipped = 1})
    /\ total' = 0 /\ added' = 0 /\ skipped' = 0
    /\ buffer' = <<>>
    /\ chunk' = <<>>
    /\ finished' = <<>>
    /\ visitedHeader' = create_empty_file(visitedHeader)
    /\ UNCHANGED <<confVars, pageVars, crawlVars, static, topicsFile, visitedFile, shards, merged, merge_ret, manifest, runs,
                   forum_topics, visited_topics, meta>>

\* a worker returns from _process_item (the loop sees it on its next pass)
WorkerReturns ==
    /\ pc = "loop"
    /\ \E i \in Running(Len(todo), finished) : finished' = Append(finished, i)
    /\ UNCHANGED <<confVars, pageVars, crawlVars, static, topicsFile, visitedFile, visitedHeader, shards, merged, merge_ret, manifest, pc, runs,
                   forum_topics, visited_topics, todo, counters, buffer, chunk, meta>>

\* one iteration of the result loop, up to the checkpoint test
Drain ==
    /\ pc = "loop"
    /\ total < Len(todo)
    /\ \E i \in imap(finished, total) :
       LET row == todo[i]
           r == ProcessItem(row.url, visited_topics)
           isDoc == IsDocument(r.txt)
           m == IF isDoc /\ row.title # ""
                THEN [r.meta EXCEPT !.topic_title = row.title]
                ELSE r.meta
       IN
        /\ total' = total + 1
        /\ meta' = m
        /\ totalDocs' = IF isDoc THEN totalDocs + 1 ELSE totalDocs
        /\ added' = IF isDoc THEN added + 1 ELSE added
        /\ skipped' = IF isDoc THEN skipped ELSE skipped + 1
        /\ chunk' = IF isDoc THEN Append(chunk, Document(r.txt, m)) ELSE chunk
        /\ buffer' = buffer \o VisitTemp(isDoc, m)
        /\ pc' = IF CheckpointDue(total', added', saveState) THEN "ckpt_flush"
                 ELSE IF total' = Len(todo) THEN "final_commit"
                 ELSE "loop"
    /\ UNCHANGED <<confVars, pageVars, crawlVars, static, finished, topicsFile, visitedFile, visitedHeader, shards, merged, merge_ret, manifest, runs,
                   forum_topics, visited_topics, todo>>

\* checkpoint: add_to_visited_file(visited_urls_dataframe), new empty dataframe
CheckpointFlush ==
    /\ pc = "ckpt_flush"
    /\ visitedFile' = add_to_visited_file(visitedFile, buffer)
    /\ visitedHeader' = add_to_visited_file_header(visitedHeader)
    /\ buffer' = <<>>
    /\ pc' = "ckpt_commit"
    /\ UNCHANGED <<confVars, pageVars, crawlVars, static, finished, topicsFile, shards, merged, merge_ret, manifest, runs, forum_topics,
                   visited_topics, todo, counters, chunk, meta>>

\* checkpoint: ar.commit()
CheckpointCommit ==
    /\ pc = "ckpt_commit"
    /\ shards' = Append(shards, chunk)
    /\ chunk' = <<>>
    /\ pc' = IF total = Len(todo) THEN "final_commit" ELSE "loop"
    /\ UNCHANGED <<confVars, pageVars, crawlVars, static, finished, topicsFile, visitedFile, visitedHeader, merged, merge_ret, manifest, runs, forum_topics,
                   visited_topics, todo, counters, buffer, meta>>

\* a statement of the result loop raises: `except Exception` logs it and the
\* code after the loop runs
LoopRaises ==
    /\ pc \in {"loop", "ckpt_flush", "ckpt_commit"}
    /\ runs < MaxRuns
    /\ runs' = runs + 1
    /\ pc' = "raised"
    /\ UNCHANGED <<confVars, pageVars, crawlVars, static, finished, topicsFile, visitedFile, visitedHeader, shards, merged, merge_ret, manifest,
                   forum_topics, visited_topics, todo, counters, buffer, chunk, meta>>

\* after the loop: ar.commit()
FinalCommit ==
    /\ pc \in {"final_commit", "raised"}
    /\ shards' = Append(shards, chunk)
    /\ chunk' = <<>>
    /\ pc' = "final_flush"
    /\ UNCHANGED <<confVars, pageVars, crawlVars, static, finished, topicsFile, visitedFile, visitedHeader, merged, merge_ret, manifest, runs, forum_topics,
                   visited_topics, todo, counters, buffer, meta>>

\* after the loop: add_to_visited_file(visited_urls_dataframe); return total_docs
FinalFlush ==
    /\ pc = "final_flush"
    /\ visitedFile' = add_to_visited_file(visitedFile, buffer)
    /\ visitedHeader' = add_to_visited_file_header(visitedHeader)
    /\ pc' = "scraped"
    /\ UNCHANGED <<confVars, pageVars, crawlVars, static, finished, topicsFile, shards, merged, merge_ret, manifest, runs, forum_topics,
                   visited_topics, todo, counters, buffer, chunk, meta>>

\* glob.glob(temp_scraper_data/*.zst): the shards in the order of the directory
\* listing, which is any order
Glob(files) ==
    {[i \in DOMAIN files |-> files[p[i]]] :
        p \in {q \in [DOMAIN files -> DOMAIN files] : \A i, j \in DOMAIN files : q[i] = q[j] => i = j}}

\* a merge_archives that removes the shards it has read
MergeConsumesShards ==
    /\ pc = "scraped"
    /\ IF totalDocs # 0
       THEN /\ \E data_files \in Glob(shards) :
                  /\ merged' = MergeArchives(data_files)
                  /\ merge_ret' = MergeCounts(data_files)
            /\ shards' = <<>>
            /\ pc' = "merged"
       ELSE /\ merged' = merged
            /\ merge_ret' = merge_ret
            /\ shards' = shards
            /\ pc' = "done"
    /\ UNCHANGED <<confVars, pageVars, crawlVars, static, finished, topicsFile, visitedFile, visitedHeader, manifest, runs, forum_topics,
                   visited_topics, todo, counters, buffer, chunk, meta>>

\* core: `if total_docs:` merge_archives()
Merge ==
    /\ pc = "scraped"
    /\ IF totalDocs # 0
       THEN /\ \E data_files \in Glob(shards) :
                  /\ merged' = MergeArchives(data_files)
                  /\ merge_ret' = MergeCounts(data_files)
            /\ pc' = "merged"
       ELSE /\ merged' = merged
            /\ merge_ret' = merge_ret
            /\ pc' = "done"
    /\ UNCHANGED <<confVars, pageVars, crawlVars, static, finished, topicsFile, visitedFile, visitedHeader, shards, manifest, runs, forum_topics,
                   visited_topics, todo, counters, buffer, chunk, meta>>

\* core: ManifestManager(total_docs = docs_num, total_characters = total_chars)
WriteManifest ==
    /\ pc = "merged"
    /\ manifest' = [written |-> TRUE, documents |-> merge_ret.total_docs,
                     characters |-> merge_ret.total_chars]
    /\ pc' = "done"
    /\ UNCHANGED <<confVars, pageVars, crawlVars, static, finished, topicsFile, visitedFile, visitedHeader, shards, merged, merge_ret, runs, forum_topics,
                   visited_topics, todo, counters, buffer, chunk, meta>>

\* the process is killed: only the files survive, and the pipeline is started again
Crash ==
    /\ pc \notin {"start", "done"}
    /\ runs < MaxRuns
    /\ runs' = runs + 1
    /\ pc' = "start"
    /\ forum_topics' = <<>> /\ visited_topics' = <<>> /\ todo' = <<>> /\ finished' = <<>>
    /\ total' = 0 /\ added' = 0 /\ skipped' = 0 /\ totalDocs' = 0
    /\ buffer' = <<>> /\ chunk' = <<>> /\ meta' = NoMeta
    /\ UNCHANGED <<confVars, pageVars, crawlVars, static, topicsFile, visitedFile, visitedHeader, shards, merged, merge_ret, manifest>>

\* the operator runs the finished pipeline again
Rerun ==
    /\ pc = "done"
    /\ runs < MaxRuns
    /\ runs' = runs + 1
    /\ pc' = "start"
    /\ forum_topics' = <<>> /\ visited_topics' = <<>> /\ todo' = <<>> /\ finished' = <<>>
    /\ total' = 0 /\ added' = 0 /\ skipped' = 0 /\ totalDocs' = 0
    /\ buffer' = <<>> /\ chunk' = <<>> /\ meta' = NoMeta
    /\ UNCHANGED <<confVars, pageVars, crawlVars, static, topicsFile, visitedFile, visitedHeader, shards, merged, merge_ret, manifest>>

Next ==
    \/ StartCrawler
    \/ StartScraper
    \/ WorkerReturns
    \/ Drain
    \/ LoopRaises
    \/ CheckpointFlush
    \/ CheckpointCommit
    \/ FinalCommit
    \/ FinalFlush
    \/ Merge
    \/ WriteManifest
    \/ Crash
    \/ Rerun

Spec == Init /\ [][Next]_vars

\* ----- merge_archives on an arbitrary temp_scraper_data ---------------------
MaxShards == 2        \* shards in temp_scraper_data
MaxShardLen == 2      \* records per shard

SeqsUpTo(S, n) == UNION {[1..k -> S] : k \in 0..n}

\* records that shards of earlier sessions may hold (two of them share a URL)
ShardRecords ==
    { [text |-> Body(MinLenTxt + 1),
       meta |-> [url |-> TopicUrl(1), topic_title |-> "page", characters |-> MinLenTxt + 1]],
      [text |-> Body(MinLenTxt + 2),
       meta |-> [url |-> TopicUrl(1), topic_title |-> "anchor", characters |-> MinLenTxt + 2]],
      [text |-> Body(MinLenTxt + 1),
       meta |-> [url |-> TopicUrl(2), topic_title |-> "page", characters |-> MinLenTxt + 1]] }

InitMerge ==
    /\ PageOff
    /\ CrawlOff
    /\ ConfOff
    /\ forum \in [sitemap : {FALSE}, prof : [Topics -> {CHOOSE p \in Profiles : p.ok /\ ~p.denied /\ ~p.big /\ p.posts # <<>>}]]
    /\ forceCrawl = FALSE
    /\ saveState = 1
    /\ topicsFile = <<>>
    /\ visitedFile = <<>>
    /\ visitedHeader = <<>>
    /\ shards \in SeqsUpTo(SeqsUpTo(ShardRecords, MaxShardLen), MaxShards)
    /\ merged = <<>>
    /\ merge_ret = NoReturn
    /\ manifest = NoManifest
    /\ pc = "scraped"
    /\ runs = MaxRuns
    /\ forum_topics = <<>>
    /\ visited_topics = <<>>
    /\ todo = <<>>
    /\ finished = <<>>
    /\ total = 0 /\ added = 0 /\ skipped = 0 /\ totalDocs = 1
    /\ buffer = <<>>
    /\ chunk = <<>>
    /\ meta = NoMeta

NextMerge == Merge \/ WriteManifest

SpecMerge == InitMerge /\ [][NextMerge]_vars

\* ----- _get_item_text: the pages of one topic --------------------------------
\* the pipeline is not followed
PipelineOff ==
    /\ forum \in [sitemap : {FALSE}, prof : [Topics -> {CHOOSE p \in Profiles : p.ok /\ ~p.denied /\ ~p.big /\ p.posts # <<>>}]]
    /\ forceCrawl = FALSE
    /\ saveState = 1
    /\ topicsFile = <<>>
    /\ visitedFile = <<>>
    /\ visitedHeader = <<>>
    /\ shards = <<>>
    /\ merged = <<>>
    /\ merge_ret = NoReturn
    /\ manifest = NoManifest
    /\ pc = "off"
    /\ runs = MaxRuns
    /\ forum_topics = <<>>
    /\ visited_topics = <<>>
    /\ todo = <<>>
    /\ finished = <<>>
    /\ total = 0 /\ added = 0 /\ skipped = 0 /\ totalDocs = 0
    /\ buffer = <<>>
    /\ chunk = <<>>
    /\ meta = NoMeta

pipeVars == <<forum, forceCrawl, saveState, topicsFile, visitedFile, visitedHeader, shards, merged, merge_ret,
              manifest, pc, runs, forum_topics, visited_topics, todo, finished, total,
              added, skipped, totalDocs, buffer, chunk, meta>>

InitPage ==
    /\ PipelineOff
    /\ CrawlOff
    /\ ConfOff
    /\ wcfg \in WorkerConfigs
    /\ served = <<>>
    /\ wpc = "first"
    /\ wurl = TopicUrl(1)
    /\ wpages = <<>>
    /\ wprev = NoLink
    /\ wlink = NoCall
    /\ wtopic = 1
    /\ wgets = 0
    /\ wslept = FALSE
    /\ wtext = <<>>

\* the page at url: as served before, or any page when it is served first
Serve(url, page) ==
    IF url.start \in DOMAIN served
    THEN page = served[url.start] /\ served' = served
    ELSE page \in PageContents(url.t) /\ served' = served @@ (url.start :> page)

\* session.get(url) succeeds: the first page is parsed, then time.sleep(time_sleep)
FirstPageFetched ==
    /\ wpc = "first"
    /\ \E page \in PageContents(wurl.t) : Serve(wurl, page)
    /\ wtext' = wtext \o PageText(PagePosts(wurl))
    /\ wpages' = <<wurl>>
    /\ wpc' = "loop"
    /\ wgets' = wgets + 1
    /\ wslept' = TRUE
    /\ UNCHANGED <<confVars, pipeVars, crawlVars, wcfg, wurl, wprev, wlink, wtopic>>

\* session.get(url) raises, or the response is not ok, empty or above 15 MB
FirstPageFailed ==
    /\ wpc = "first"
    /\ wpc' = "done"
    /\ wgets' = wgets + 1
    /\ wslept' = FALSE
    /\ UNCHANGED <<confVars, pipeVars, crawlVars, wcfg, served, wurl, wpages, wprev, wlink, wtopic, wtext>>

\* one turn of the while loop: a next page in the dataset, fetched and parsed
NextPageFetched ==
    /\ wpc = "loop"
    /\ Len(wpages) < MaxFetch
    /\ LET r == GetNextPageLink(wurl, served[wurl.start], wcfg) IN
        /\ r.kind = "link"
        /\ InDataset(urljoin(r.href))
        /\ wprev' = wurl
        /\ wlink' = r
        /\ wurl' = urljoin(r.href)
        /\ \E page \in PageContents(wurl.t) : Serve(urljoin(r.href), page)
        /\ wtext' = wtext \o PageText(PagePosts(urljoin(r.href)))
        /\ wpages' = Append(wpages, urljoin(r.href))
    /\ wgets' = wgets + 1
    /\ wslept' = TRUE
    /\ UNCHANGED <<confVars, pipeVars, crawlVars, wcfg, wpc, wtopic>>

\* the exception handler of the while loop with `text = ''`
NextPageFailedTextLost ==
    /\ wpc = "loop"
    /\ LET r == GetNextPageLink(wurl, served[wurl.start], wcfg) IN
        /\ r.kind = "link"
        /\ InDataset(urljoin(r.href))
        /\ wprev' = wurl
        /\ wlink' = r
        /\ wurl' = urljoin(r.href)
    /\ wpc' = "done"
    /\ wgets' = wgets + 1
    /\ wslept' = FALSE
    /\ wtext' = <<>>
    /\ UNCHANGED <<confVars, pipeVars, crawlVars, wcfg, served, wpages, wtopic>>

\* one turn of the while loop: session.get of the next page raises
NextPageFailed ==
    /\ wpc = "loop"
    /\ LET r == GetNextPageLink(wurl, served[wurl.start], wcfg) IN
        /\ r.kind = "link"
        /\ InDataset(urljoin(r.href))
        /\ wprev' = wurl
        /\ wlink' = r
        /\ wurl' = urljoin(r.href)
    /\ wpc' = "done"
    /\ wgets' = wgets + 1
    /\ wslept' = FALSE
    /\ UNCHANGED <<confVars, pipeVars, crawlVars, wcfg, served, wpages, wtopic, wtext>>

\* the while loop ends: no next page, a next page outside the dataset, or
\* _get_next_page_link raises
NoNextPage ==
    /\ wpc = "loop"
    /\ LET r == GetNextPageLink(wurl, served[wurl.start], wcfg) IN
        /\ r.kind # "link" \/ ~InDataset(urljoin(r.href))
        /\ wprev' = wurl
        /\ wlink' = r
        /\ wurl' = IF r.kind = "link" THEN urljoin(r.href) ELSE wurl
    /\ wpc' = "done"
    /\ UNCHANGED <<confVars, pipeVars, crawlVars, wcfg, served, wpages, wtopic, wgets, wslept, wtext>>

\* _get_item_text has returned: the worker takes its next task from the pool
NextTask ==
    /\ wpc = "done"
    /\ wtopic < NTopics
    /\ wtopic' = wtopic + 1
    /\ wurl' = TopicUrl(wtopic + 1)
    /\ wpc' = "first"
    /\ served' = <<>>
    /\ wpages' = <<>>
    /\ wprev' = NoLink
    /\ wlink' = NoCall
    /\ wtext' = <<>>
    /\ wgets' = 0
    /\ UNCHANGED <<confVars, pipeVars, crawlVars, wcfg, wslept>>

NextPage ==
    \/ FirstPageFetched
    \/ FirstPageFailed
    \/ NextPageFetched
    \/ NextPageFailed
    \/ NoNextPage
    \/ NextTask

SpecPage == InitPage /\ [][NextPage]_vars

\* ----- start-up with a topics table on disk ------------------------------------
\* the rows a topics table can hold
TopicRows == [url : {TopicUrl(t) : t \in Topics}, title : {"", "anchor"}]

\* Topics_URLs_-_<dataset>.csv as an earlier run left it: no URL twice
TopicTables ==
    {<<r>> : r \in TopicRows}
        \cup {<<p[1], p[2]>> : p \in {q \in TopicRows \X TopicRows : q[1].url # q[2].url}}

InitLoad ==
    /\ PageOff
    /\ CrawlOff
    /\ ConfOff
    /\ forum \in [sitemap : BOOLEAN, prof : [Topics -> Profiles]]
    /\ forceCrawl = FALSE
    /\ saveState = 1
    /\ topicsFile \in TopicTables
    /\ visitedFile = <<>>
    /\ visitedHeader = <<>>
    /\ shards = <<>>
    /\ merged = <<>>
    /\ merge_ret = NoReturn
    /\ manifest = NoManifest
    /\ pc = "start"
    /\ runs = MaxRuns
    /\ forum_topics = <<>>
    /\ visited_topics = <<>>
    /\ todo = <<>>
    /\ finished = <<>>
    /\ total = 0 /\ added = 0 /\ skipped = 0 /\ totalDocs = 0
    /\ buffer = <<>>
    /\ chunk = <<>>
    /\ meta = NoMeta

NextLoad == StartCrawler

SpecLoad == InitLoad /\ [][NextLoad]_vars

\* ----- the URL filter on its own ------------------------------------------------
\* substrings an allow or deny list can hold
ListEntries == {"viewtopic", "start", "page"}

\* an href, the allow and deny lists, the Disallow rules of robots.txt, force_crawl
FilterInputs ==
    [href : {Url(fm, 1, t, st) : fm \in {"abs", "rel"}, t \in Topics, st \in Starts},
     whitelist : SUBSET ListEntries,
     blacklist : SUBSET ListEntries,
     disallow : SUBSET Topics,
     force : BOOLEAN]

InitFilter ==
    /\ PipelineOff
    /\ PageOff
    /\ CrawlOff
    /\ farg \in FilterInputs
    /\ fres = NoVerdict

\* _crawler_search_filter / _urls_generator decide about one href
FilterApplied ==
    /\ ~fres.done
    /\ fres' = [done |-> TRUE, keep |-> KeepHref(farg.href, farg.whitelist, farg.blacklist, farg.disallow, farg.force)]
    /\ UNCHANGED <<pipeVars, pageVars, crawlVars, farg>>

NextFilter == FilterApplied

SpecFilter == InitFilter /\ [][NextFilter]_vars

\* ----- ConfigManager: the settings and robots.txt ------------------------------
MaxProcesses == 3     \* largest configured number of processes
MaxRate == 3          \* largest number in a Request-rate line of robots.txt
MaxDelay == 2         \* largest Crawl-delay of robots.txt, in seconds

\* time_sleep of ConfigManager.__init__, in hundredths of a second (times are
\* kept in hundredths, round(x, 2) has no finer values)
TimeSleepDefault == 50

\* a str is a tuple of characters, a list a tuple of strs
OverrideUrl == <<"o", "v">>
RobotsMap1 == <<"r", "1">>
RobotsMap2 == <<"r", "2">>
main_site == <<"m", "s">>
NoSeed == <<>>

\* a Python value that is a str or a list, with x[0]: of a str its first
\* character (a str of length one), of a list its first element
Str(v) == [list |-> FALSE, val |-> v]
List(v) == [list |-> TRUE, val |-> v]
Index0(x) == IF x.list THEN x.val[1] ELSE SubSeq(x.val, 1, 1)

NoRate == [requests |-> 0, seconds |-> 0]

\* what RobotFileParser reports for user-agent *: can_fetch of DATASET_URL,
\* request_rate, crawl_delay (0: no Crawl-delay line or a delay of zero, both
\* falsy) and site_maps
RobotsFiles ==
    [deny : BOOLEAN,
     rate : {NoRate} \cup [requests : 1..MaxRate, seconds : 1..MaxRate],
     delay : 0..MaxDelay,
     site_maps : {<<>>, <<RobotsMap1>>, <<RobotsMap1, RobotsMap2>>}]

\* the arguments of ConfigManager.__init__ that the robots check touches, with the
\* robots.txt the site serves
ConfigArgs ==
    [check_robots : BOOLEAN,
     force_crawl : BOOLEAN,
     processes : 1..MaxProcesses,
     time_sleep : {0, TimeSleepDefault},
     sitemaps : {<<>>, OverrideUrl},
     robots : RobotsFiles]

\* round(seconds / requests, 2) in hundredths: round(100 * a / b) to the nearest
\* integer, a tie to the even one
RoundHalfEven(a, b) ==
    LET q == a \div b
        r == a % b
    IN  IF 2 * r < b THEN q
        ELSE IF 2 * r > b THEN q + 1
        ELSE IF q % 2 = 0 THEN q ELSE q + 1

\* _initialize_settings: the dict of settings
InitialSettings(a) ==
    [PROCESSES |-> a.processes,
     TIME_SLEEP |-> a.time_sleep,
     SITEMAPS |-> Str(a.sitemaps),
     FORCE_CRAWL |-> a.force_crawl]

\* a robots check that never leaves the run
RobotsNeverDenies(rb, force_crawl) == FALSE

\* _check_robots_txt leaves through exit()
RobotsDenies(rb, force_crawl) == rb.deny /\ force_crawl = FALSE

\* _check_robots_txt with the clamp of PROCESSES left out
RobotsSettingsNoClamp(s, rb) ==
    LET s1 == IF rb.rate # NoRate
              THEN [s EXCEPT !.TIME_SLEEP = RoundHalfEven(100 * rb.rate.seconds, rb.rate.requests)]
              ELSE s
        s2 == IF rb.delay # 0 THEN [s1 EXCEPT !.TIME_SLEEP = 100 * rb.delay] ELSE s1
    IN  IF rb.site_maps # <<>> THEN [s2 EXCEPT !.SITEMAPS = List(rb.site_maps)] ELSE s2

\* _check_robots_txt after the can_fetch test: request rate, crawl delay, sitemaps
RobotsSettings(s, rb) ==
    LET s1 == IF rb.rate # NoRate
              THEN [s EXCEPT !.TIME_SLEEP = RoundHalfEven(100 * rb.rate.seconds, rb.rate.requests),
                             !.PROCESSES = 2]
              ELSE s
        s2 == IF rb.delay # 0
              THEN [s1 EXCEPT !.TIME_SLEEP = 100 * rb.delay, !.PROCESSES = 2]
              ELSE s1
    IN  IF rb.site_maps # <<>> THEN [s2 EXCEPT !.SITEMAPS = List(rb.site_maps)] ELSE s2

\* start_crawler chooses the seed of the sitemap search: settings['SITEMAPS'][0]
\* (of a str its first character, of a list its first element) or main_site
SitemapsUrl(s) == IF s.SITEMAPS.val # <<>> THEN Index0(s.SITEMAPS) ELSE main_site

NoSettings == [PROCESSES |-> 0, TIME_SLEEP |-> 0, SITEMAPS |-> Str(<<>>), FORCE_CRAWL |-> FALSE]

InitConfig ==
    /\ PageOff
    /\ CrawlOff
    /\ farg \in ConfigArgs
    /\ fres = [pos |-> "new", settings |-> NoSettings, force_crawl |-> FALSE, sitemaps_url |-> NoSeed]
    /\ forum \in [sitemap : {FALSE}, prof : [Topics -> {CHOOSE p \in Profiles : p.ok /\ ~p.denied /\ ~p.big /\ p.posts # <<>>}]]
    /\ forceCrawl = (farg.force_crawl \/ ~farg.check_robots)
    /\ saveState = 1
    /\ topicsFile = <<>>
    /\ visitedFile = <<>>
    /\ visitedHeader = <<>>
    /\ shards = <<>>
    /\ merged = <<>>
    /\ merge_ret = NoReturn
    /\ manifest = NoManifest
    /\ pc = "off"
    /\ runs = MaxRuns
    /\ forum_topics = <<>>
    /\ visited_topics = <<>>
    /\ todo = <<>>
    /\ finished = <<>>
    /\ total = 0 /\ added = 0 /\ skipped = 0 /\ totalDocs = 0
    /\ buffer = <<>>
    /\ chunk = <<>>
    /\ meta = NoMeta

\* ConfigManager.__init__ up to the robots check
InitializeSettings ==
    /\ fres.pos = "new"
    /\ fres' = [fres EXCEPT !.pos = "settings", !.settings = InitialSettings(farg)]
    /\ UNCHANGED <<pipeVars, pageVars, crawlVars, farg>>

\* check_robots == True: _check_robots_txt(force_crawl = settings['FORCE_CRAWL'])
CheckRobotsTxt ==
    /\ fres.pos = "settings"
    /\ farg.check_robots
    /\ fres' = IF RobotsDenies(farg.robots, fres.settings.FORCE_CRAWL)
               THEN [fres EXCEPT !.pos = "exited"]
               ELSE [fres EXCEPT !.pos = "configured",
                                 !.settings = RobotsSettings(fres.settings, farg.robots),
                                 !.force_crawl = fres.settings.FORCE_CRAWL]
    /\ UNCHANGED <<pipeVars, pageVars, crawlVars, farg>>

\* check_robots == False: robots.txt is not read and force_crawl becomes True
RobotsNotChecked ==
    /\ fres.pos = "settings"
    /\ ~farg.check_robots
    /\ fres' = [fres EXCEPT !.pos = "configured", !.force_crawl = TRUE]
    /\ UNCHANGED <<pipeVars, pageVars, crawlVars, farg>>

\* a CrawlerManager is built from the ConfigManager once its __init__ has
\* returned; start_crawler chooses the seed of the sitemap search and discovers
CoreStartCrawler ==
    /\ fres.pos = "configured"
    /\ pc = "off"
    /\ fres' = [fres EXCEPT !.pos = "crawler", !.sitemaps_url = SitemapsUrl(fres.settings)]
    /\ LET found == Discover(DropDuplicates(read_csv(topicsFile))) IN
        /\ forum_topics' = found
        /\ topicsFile' = IF found # <<>> THEN to_csv(found) ELSE topicsFile
        /\ pc' = IF found # <<>> THEN "crawled" ELSE "done"
    /\ visited_topics' = DropDuplicates(read_csv(visitedFile))
    /\ UNCHANGED <<pageVars, crawlVars, static, finished, visitedFile, visitedHeader, shards, merged, merge_ret, manifest, runs, todo,
                   counters, buffer, chunk, meta, farg>>

NextConfig ==
    \/ InitializeSettings
    \/ CheckRobotsTxt
    \/ RobotsNotChecked
    \/ CoreStartCrawler

SpecConfig == InitConfig /\ [][NextConfig]_vars

\* ----- ForumEnginesManager: the lists of an engine ------------------------------
\* the keys of the settings that hold the operator's lists
ListNames == {"THREADS_CLASS", "THREADS_WHITELIST", "THREADS_BLACKLIST",
              "TOPICS_CLASS", "TOPICS_WHITELIST", "TOPICS_BLACKLIST",
              "PAGINATION", "TOPIC_TITLE_CLASS", "CONTENT_CLASS"}

\* the lists check_engine_content extends
ExtendedNames == {"THREADS_CLASS", "THREADS_WHITELIST", "THREADS_BLACKLIST",
                  "TOPICS_CLASS", "TOPICS_WHITELIST", "TOPICS_BLACKLIST",
                  "PAGINATION", "CONTENT_CLASS"}

Engines == {"invision", "phpbb", "other"}

\* InvisionCrawler, PhpBBCrawler, UnsupportedCrawler: the lists of __init__
EngineDefaults(e) ==
    IF e = "invision" THEN
        [THREADS_CLASS |-> <<"div >> class :: ipsDataItem_main">>,
         TOPICS_CLASS |-> <<"div >> class :: ipsDataItem_main">>,
         THREADS_WHITELIST |-> <<"forum">>,
         THREADS_BLACKLIST |-> <<"topic">>,
         TOPICS_WHITELIST |-> <<"topic">>,
         TOPICS_BLACKLIST |-> <<"page", "#comments">>,
         PAGINATION |-> <<"ipsPagination_next">>,
         TOPIC_TITLE_CLASS |-> <<"h1 >> class :: ipsType_pageTitle ipsContained_container">>,
         CONTENT_CLASS |-> <<"div >> data-role :: commentContent">>]
    ELSE IF e = "phpbb" THEN
        [THREADS_CLASS |-> <<"a >> class :: forumtitle", "a >> class :: forumlink">>,
         TOPICS_CLASS |-> <<"a >> class :: topictitle">>,
         THREADS_WHITELIST |-> <<>>,
         THREADS_BLACKLIST |-> <<>>,
         TOPICS_WHITELIST |-> <<>>,
         TOPICS_BLACKLIST |-> <<>>,
         PAGINATION |-> <<"pagination-arrow", "next", "arrow next", "right-box right", "title :: Dalej",
                          "pag-img", "right-box-topic right btn btn-primary", "span >> class :: pagination">>,
         TOPIC_TITLE_CLASS |-> <<"h2 >>  :: ", "h2 >> class :: topic-title", "h2 >> class :: viewtopic",
                                 "a >> class :: nav">>,
         CONTENT_CLASS |-> <<"div >> class :: content", "div >> class :: postbody">>]
    ELSE [n \in ListNames |-> <<>>]

\* the lists an operator passes: none, one entry, two entries
OperatorLists == {<<>>, <<"op1">>, <<"op1", "op2">>}

EngineInputs == [engine : Engines, settings : [ListNames -> OperatorLists]]

\* check_engine_content: the lists of the engine, extended by the settings
EngineContent(e, settings) ==
    [n \in ListNames |->
        IF n \in ExtendedNames /\ settings[n] # <<>>
        THEN EngineDefaults(e)[n] \o settings[n]
        ELSE EngineDefaults(e)[n]]

NoLists == [done |-> FALSE, lists |-> [n \in ListNames |-> <<>>]]

InitEngine ==
    /\ PipelineOff
    /\ PageOff
    /\ CrawlOff
    /\ farg \in EngineInputs
    /\ fres = NoLists

\* ForumEnginesManager.__init__ calls check_engine_content
CheckEngineContent ==
    /\ ~fres.done
    /\ fres' = [done |-> TRUE, lists |-> EngineContent(farg.engine, farg.settings)]
    /\ UNCHANGED <<pipeVars, pageVars, crawlVars, farg>>

NextEngine == CheckEngineContent

SpecEngine == InitEngine /\ [][NextEngine]_vars

\* ----- crawl_forum: the HTML crawl of the forum ------------------------------
NThreads == 2         \* thread (sub-forum) pages of the forum

Threads == 1..NThreads

ThreadUrl(k) == Url("abs", k, 0, 0)

threads_whitelist == {}
threads_blacklist == {}

\* what topics_class finds on a thread page: nothing, or anchors with absolute,
\* relative and cross-host hrefs
TopicAnchorSets ==
    { {},
      {[href |-> Url("abs", 1, 1, 0), text |-> "anchor"]},
      {[href |-> Url("rel", 1, 2, 0), text |-> "anchor"],
       [href |-> Url("ext", 1, 1, 0), text |-> "anchor"]} }

\* a thread page: the elements topics_class finds and the threads threads_class finds
ThreadPages == [topics : TopicAnchorSets, threads : SUBSET Threads]

\* the number of non-empty paths without a repeated page among n pages
RECURSIVE SimplePaths(_, _)
SimplePaths(n, k) == IF k = 0 THEN 0 ELSE n * (1 + SimplePaths(n - 1, k - 1))

\* calls of _get_thread_topics that the model follows
MaxCrawl == SimplePaths(NThreads, NThreads) + 1

\* _get_forum_threads_extract: the thread links of a page through _crawler_search_filter
GetForumThreadsExtract(threads) ==
    {UrlReturn(ThreadUrl(k)) : k \in {j \in threads :
        KeepHref(ThreadUrl(j), threads_whitelist, threads_blacklist, Disallow, forceCrawl)}}

\* the topics _crawler_search_filter returns for the elements topics_class finds
TopicsFound(anchors) ==
    {[url |-> UrlReturn(a.href), title |-> a.text] : a \in {b \in anchors :
        KeepHref(b.href, topics_whitelist, topics_blacklist, Disallow, forceCrawl)}}

\* a sequence of the elements of a set (dict.update on an ordered dict)
RECURSIVE SeqOf(_)
SeqOf(S) == IF S = {} THEN <<>> ELSE LET x == CHOOSE y \in S : TRUE IN <<x>> \o SeqOf(S \ {x})

\* dict.update(found): the rows of new keys are appended
DictUpdate(rows, found) ==
    rows \o SeqOf({r \in found : ~\E i \in DOMAIN rows : rows[i].url = r.url})

pipeRest == <<static, visitedFile, visitedHeader, shards, merged, merge_ret, manifest, pc, runs, forum_topics,
              visited_topics, todo, finished, counters, buffer, chunk, meta>>

InitCrawl ==
    /\ PipelineOff
    /\ PageOff
    /\ ConfOff
    /\ site \in [slash : BOOLEAN, main : SUBSET Threads, page : [Threads -> ThreadPages]]
    /\ forum_threads = <<>>
    /\ threads_topics = <<>>
    /\ cpc = "start"
    /\ cidx = 0
    /\ cleft = {}
    /\ crawls = 0

\* crawl_forum: forum_threads.append(_get_forum_threads(forum_url))
CrawlMainPage ==
    /\ cpc = "start"
    /\ forum_threads' = <<GetForumThreadsExtract(site.main)>>
    /\ cidx' = 1
    /\ cleft' = GetForumThreadsExtract(site.main)
    /\ cpc' = "threads"
    /\ UNCHANGED <<confVars, pageVars, pipeRest, topicsFile, site, threads_topics, crawls>>

\* one pass of the inner loop: _get_thread_topics(thread_url), threads_topics.update(topics);
\* a page on which topics_class finds nothing has its thread links appended to forum_threads
CrawlThread ==
    /\ cpc = "threads"
    /\ crawls < MaxCrawl
    /\ \E thread_url \in cleft :
        LET soup == site.page[thread_url.f] IN
        /\ cleft' = cleft \ {thread_url}
        /\ forum_threads' = IF soup.topics = {}
                            THEN Append(forum_threads, GetForumThreadsExtract(soup.threads))
                            ELSE forum_threads
        /\ threads_topics' = DictUpdate(threads_topics, TopicsFound(soup.topics))
    /\ crawls' = crawls + 1
    /\ UNCHANGED <<confVars, pageVars, pipeRest, topicsFile, site, cpc, cidx>>

\* the outer loop `for x in self.forum_threads` moves to the next dict of the list
NextThreadsDict ==
    /\ cpc = "threads"
    /\ cleft = {}
    /\ cidx < Len(forum_threads)
    /\ cidx' = cidx + 1
    /\ cleft' = forum_threads[cidx + 1]
    /\ UNCHANGED <<confVars, pageVars, pipeRest, topicsFile, site, forum_threads, threads_topics, cpc, crawls>>

\* the list is exhausted: crawl_forum returns and start_crawler writes the topics table
CrawlReturns ==
    /\ cpc = "threads"
    /\ cleft = {}
    /\ cidx = Len(forum_threads)
    /\ topicsFile' = IF Len(threads_topics) # 0 THEN to_csv(DropDuplicates(threads_topics)) ELSE topicsFile
    /\ cpc' = "done"
    /\ UNCHANGED <<confVars, pageVars, pipeRest, site, forum_threads, threads_topics, cidx, cleft, crawls>>

NextCrawl ==
    \/ CrawlMainPage
    \/ CrawlThread
    \/ NextThreadsDict
    \/ CrawlReturns

SpecCrawl == InitCrawl /\ [][NextCrawl]_vars

\* ----- claims ---------------------------------------------------------------
DocUrls(docs) == {docs[i].meta.url : i \in DOMAIN docs}
SealedUrls == UNION {DocUrls(shards[k]) : k \in DOMAIN shards}
VisitedUrls == {visitedFile[i].url : i \in DOMAIN visitedFile}

\* the URLs of the final archive of a single uninterrupted run on an empty workspace
CleanRunUrls ==
    LET topics == Discover(<<>>) IN
    {topics[i].url : i \in {j \in DOMAIN topics : IsDocument(ProcessItem(topics[j].url, <<>>).txt)}}

\* C1: whenever the pipeline has finished - after any number of crashes and
\* re-runs - the URLs of the final merged archive are those of a single
\* uninterrupted run.
C1_ResumeIdempotent == pc = "done" => DocUrls(merged) = CleanRunUrls

\* C2: in every persisted state, every URL of a sealed shard is a row of the
\* visited table.
C2_VisitedSupersetOfArchive == SealedUrls \subseteq VisitedUrls

\* C3: in every persisted state, every visited row with visited=1 and
\* skipped=0 has a document with its URL in a sealed shard.
C3_AddedRowsHaveDocument ==
    \A i \in DOMAIN visitedFile :
        (visitedFile[i].visited = 1 /\ visitedFile[i].skipped = 0)
            => visitedFile[i].url \in SealedUrls

NoDuplicateUrls(docs) ==
    \A i, j \in DOMAIN docs : docs[i].meta.url = docs[j].meta.url => i = j

\* C4: after merge_archives the final merged shard holds at most one record
\* per meta.url, whatever duplicates the shards hold.
C4_MergedDuplicateFree == pc \in {"merged", "done"} => NoDuplicateUrls(merged)

\* C4 witness: two shards that share a URL, one of them holding it twice, were merged.
C4_Witness ==
    /\ pc = "merged"
    /\ Len(shards) = 2
    /\ ~NoDuplicateUrls(shards[1])
    /\ DocUrls(shards[1]) \cap DocUrls(shards[2]) # {}
    /\ Len(merged) = 2

\* robots.allowed(url), asked for the URL itself
RobotsAllowed(url) == url.t \notin Disallow

\* C5: with forceCrawl=false no robots-disallowed URL is in the visited table
\* with skipped=0.
C5_RobotsCompliance ==
    ~forceCrawl =>
        \A i \in DOMAIN visitedFile :
            visitedFile[i].skipped = 0 => RobotsAllowed(visitedFile[i].url)

\* C6: with forceCrawl=false, when a run that found topics has completed, every
\* topic URL that robots.txt disallows is in the visited table with visited=1,
\* skipped=1.
C6_RobotsDeniedRecordedSkipped ==
    (pc = "done" /\ ~forceCrawl /\ topicsFile # <<>>) =>
        \A t \in Disallow :
            \E i \in DOMAIN visitedFile :
                /\ visitedFile[i].url = TopicUrl(t)
                /\ visitedFile[i].visited = 1
                /\ visitedFile[i].skipped = 1

\* C9: in a session the coordinator flushes the buffered rows and then seals
\* the shard exactly after draining a result that makes the session's count a
\* multiple of SAVE_STATE with at least one document added; while results are
\* drained nothing else writes the visited table or seals a shard.
C9_CheckpointRule ==
    [][ /\ (pc = "loop" /\ total' = total + 1)
            => ((pc' = "ckpt_flush") <=> (total' % saveState = 0 /\ added' > 0))
        /\ pc' = "ckpt_flush" => (pc = "ckpt_flush" \/ (pc = "loop" /\ total' = total + 1))
        /\ pc = "loop" => (visitedFile' = visitedFile /\ shards' = shards)
        /\ (pc = "ckpt_flush" /\ pc' \notin {"start", "raised", pc})
            => /\ visitedFile' = visitedFile \o to_csv(buffer)
               /\ buffer' = <<>>
               /\ shards' = shards
               /\ pc' = "ckpt_commit"
        /\ (pc = "ckpt_commit" /\ pc' \notin {"start", "raised", pc})
            => /\ shards' = Append(shards, chunk)
               /\ chunk' = <<>>
               /\ visitedFile' = visitedFile
               /\ pc' \in {"loop", "final_commit"}
        /\ (pc \in {"ckpt_flush", "ckpt_commit"} /\ pc' = pc)
            => (visitedFile' = visitedFile /\ shards' = shards /\ buffer' = buffer)
      ]_vars

\* C9 witness: a checkpoint in the middle of a session, after the flush.
C9_Witness ==
    /\ pc = "ckpt_commit"
    /\ total < Len(todo)
    /\ total % saveState = 0
    /\ added > 0
    /\ visitedFile # <<>>

\* C10: every drained result appends exactly one row to the buffer,
\* (visited=1, skipped=0) when a document was added and (visited=1, skipped=1)
\* when it was not, except a result with skip reason 'visited'.
C10_VisitedUpdateRule ==
    [][ (pc = "loop" /\ total' = total + 1) =>
          LET url == todo[total'].url IN
          /\ chunk' # chunk =>
                buffer' = Append(buffer, [url |-> url, title |-> meta'.topic_title,
                                          visited |-> 1, skipped |-> 0])
          /\ (chunk' = chunk /\ meta'.skip # "visited") =>
                buffer' = Append(buffer, [url |-> url, title |-> meta'.topic_title,
                                          visited |-> 1, skipped |-> 1])
          /\ meta'.skip = "visited" => buffer' = buffer
      ]_vars

\* C10 witness: the buffer holds the row of an added and the row of a skipped URL.
C10_Witness ==
    \E i, j \in DOMAIN buffer :
        /\ buffer[i].visited = 1 /\ buffer[i].skipped = 1
        /\ buffer[j].visited = 1 /\ buffer[j].skipped = 0

\* C7: the page loop of a topic ends after finitely many fetches. The forum is
\* finite and static and the next page is a function of the current one, so
\* the loop ends iff no page of the topic is fetched twice.
C7_PageLoopTerminates ==
    \A i, j \in DOMAIN wpages : wpages[i] = wpages[j] => i = j

\* C8: _get_next_page_link never returns a link that resolves to the URL of
\* the page it was called for.
C8_NoSelfLoop ==
    wlink.kind = "link" => urljoin(wlink.href) # wprev

\* the URLs of the rows / documents of a sequence, in order
UrlsOf(rows) == [k \in DOMAIN rows |-> rows[k].url]
DocUrlsOf(docs) == [k \in DOMAIN docs |-> docs[k].meta.url]

\* is s a subsequence of t
RECURSIVE IsSubSeq(_, _)
IsSubSeq(s, t) ==
    IF s = <<>> THEN TRUE
    ELSE IF t = <<>> THEN FALSE
    ELSE IF Head(s) = Head(t) THEN IsSubSeq(Tail(s), Tail(t))
    ELSE IsSubSeq(s, Tail(t))

\* C11: whatever the order in which the workers return, each pass of the
\* result loop handles the result of the next URL submitted: its row is
\* buffered (and its document, if any, added to the chunk) at the end, so
\* rows and documents are in the order of the remaining-topics list, and a
\* flush appends the buffer to the visited table in that order.
C11_ResultOrdering ==
    [][ /\ (pc = "loop" /\ total' = total + 1) =>
              /\ Len(buffer') = Len(buffer) + 1
              /\ buffer'[Len(buffer')].url = todo[total'].url
              /\ SubSeq(buffer', 1, Len(buffer)) = buffer
              /\ chunk' # chunk =>
                    /\ Len(chunk') = Len(chunk) + 1
                    /\ chunk'[Len(chunk')].meta.url = todo[total'].url
                    /\ SubSeq(chunk', 1, Len(chunk)) = chunk
              /\ IsSubSeq(UrlsOf(buffer'), UrlsOf(todo))
              /\ IsSubSeq(DocUrlsOf(chunk'), UrlsOf(todo))
        /\ (visitedFile' # visitedFile) => visitedFile' = visitedFile \o to_csv(buffer)
      ]_vars

\* C11 witness: the worker of the second URL returned before the worker of the
\* first, and both results have been handled, the first URL's row first.
C11_Witness ==
    /\ Len(finished) >= 2 /\ finished[1] = 2 /\ finished[2] = 1
    /\ total = 2
    /\ UrlsOf(buffer) = <<todo[1].url, todo[2].url>>

\* C12: the URLs handed to the pool are those of the topics table that are not
\* in the visited table with visited=1: no URL recorded in an earlier session
\* is scheduled again, and with an empty visited table the whole topics table
\* is scheduled; the workers are given nothing else.
C12_ResumeWorkSet ==
    [][ /\ (pc = "crawled" /\ pc' \in {"loop", "scraped"}) =>
              /\ Range(UrlsOf(todo')) =
                    Range(UrlsOf(topicsFile))
                        \ {visitedFile[i].url : i \in {j \in DOMAIN visitedFile : visitedFile[j].visited = 1}}
              /\ Range(UrlsOf(todo')) \cap VisitedUrls = {}
              /\ visitedFile = <<>> => to_csv(todo') = topicsFile
        /\ (finished' # finished /\ finished' # <<>>) =>
              /\ todo' = todo
              /\ finished'[Len(finished')] \in DOMAIN todo
      ]_vars

\* C12 witness: a later session that schedules some but not all topics, the
\* others being recorded in the visited table.
C12_Witness ==
    /\ pc = "loop"
    /\ runs >= 1
    /\ visitedFile # <<>>
    /\ todo # <<>>
    /\ Len(todo) < Len(topicsFile)
    /\ finished # <<>>

\* C13: the merged archive (and then the manifest) is produced only in a run
\* whose scraper has handled every remaining topic URL.
C13_FinalisationOnlyAtEnd == pc = "merged" => total = Len(todo)

\* urlparse(url).hostname without a leading "www."; the dataset host is "forum"
Host(url) ==
    CASE url.form \in {"abs", "rel"} -> "forum"
      [] url.form = "ext" -> "other"
      [] url.form = "glued" -> IF site.slash THEN "forum" ELSE "forumttps"
      [] OTHER -> ""

\* C14: every URL of the topics table, the visited table and the archive
\* records has the host of the dataset URL.
C14_HostConfinement ==
    /\ \A i \in DOMAIN topicsFile : Host(topicsFile[i].url) = "forum"
    /\ \A i \in DOMAIN visitedFile : Host(visitedFile[i].url) = "forum"
    /\ \A url \in SealedUrls \cup DocUrls(merged) : Host(url) = "forum"

\* C19: crawl_forum terminates. On a static forum the pages crawled form a
\* tree whose branches repeat no page unless the crawl goes on for ever, so a
\* crawl that ends calls _get_thread_topics at most SimplePaths times.
C19_CrawlTerminates == crawls <= SimplePaths(NThreads, NThreads)

\* C15: within one worker a sleep takes place between any two consecutive
\* session.get calls, whatever the outcome of the earlier one.
C15_Politeness == [][(wgets' > wgets /\ ~(wtopic = 1 /\ wgets = 0)) => wslept]_vars

\* C16: the manifest's stats.documents is the number of records of the merged
\* shard and its stats.characters is the sum of their meta.characters.
C16_ManifestAccounting ==
    manifest.written =>
        /\ manifest.documents = Len(merged)
        /\ manifest.characters = SumChars(merged)

\* a manifest written after a merge that dropped a duplicate and kept two records
C16_Witness ==
    /\ manifest.written
    /\ Len(merged) = 2
    /\ Len(MergeArchivesNoDedup(shards)) > 2
    /\ manifest.characters > 0

\* the records added to the chunk archive: sealed or still in the open chunk
ArchiveRecords == Range(chunk) \cup UNION {Range(shards[i]) : i \in DOMAIN shards}

\* C17: every record added to the chunk archive has meta.characters equal to
\* the length of its text, and that text is the stripped text.
C17_CharactersIsLength ==
    \A d \in ArchiveRecords :
        /\ d.meta.characters = Len(d.text)
        /\ d.text = Strip(d.text)

\* a record was added whose text was shortened by strip()
C17_Witness ==
    \E d \in ArchiveRecords :
        /\ d.meta.url.form = "abs"
        /\ d.meta.characters = Len(d.text)
        /\ Len(GetItemText(d.meta.url).text) > Len(d.text)

\* the positions of _scrap_txt_mp between the start of the result loop and its return
SessionPcs == {"loop", "ckpt_flush", "ckpt_commit", "raised", "final_commit", "final_flush"}

\* the visit records written or still to be written, and the same for documents
VisitLedger(file, buf, p) == IF p = "scraped" THEN file ELSE file \o to_csv(buf)
DocLedger(files, open) == MergeArchivesNoDedup(files) \o open

\* the elements a sequence gained at its end
Gained(old, new) == IF Len(new) > Len(old) THEN SubSeq(new, Len(old) + 1, Len(new)) ELSE <<>>

\* C18: from the first result to the return of the session - whether the loop
\* drained every result or raised - each visit record put into the buffer is
\* written to the visited table once, and each added document is in a sealed
\* shard when the session returns.
C18_NothingBufferedLost ==
    [][(pc \in SessionPcs /\ pc' \in SessionPcs \cup {"scraped"}) =>
          /\ VisitLedger(visitedFile', buffer', pc')
                = VisitLedger(visitedFile, buffer, pc) \o to_csv(Gained(buffer, buffer'))
          /\ DocLedger(shards', chunk') = DocLedger(shards, chunk) \o Gained(chunk, chunk')
          /\ pc' = "scraped" => chunk' = <<>>]_vars

\* a session that returned after the loop raised: its visit record was written
\* by the final flush and its document sealed by the final commit
C18_Witness ==
    /\ pc = "scraped"
    /\ total < Len(todo)
    /\ buffer # <<>>
    /\ visitedFile = to_csv(buffer)
    /\ chunk = <<>>
    /\ \E i \in DOMAIN shards : DocUrls(shards[i]) = {buffer[1].url}

\* the first GET of the topic fails, is answered with a non-OK status, an
\* empty body or a body above 15 MB
FetchFails(url) ==
    LET p == forum.prof[url.t] IN ~p.ok \/ p.big \/ p.posts = <<>>

\* C20: a topic whose first GET fails is returned by the worker with empty
\* text and skip reason 'error'; the coordinator buffers it with visited = 1,
\* skipped = 1, adds no document, and goes on with the next result.
C20_FetchFailureIsSkip ==
    [][(pc = "loop" /\ total' = total + 1 /\ FetchFails(todo[total'].url)) =>
          /\ meta'.skip = "error"
          /\ ProcessItem(todo[total'].url, visited_topics).txt = <<>>
          /\ Len(buffer') = Len(buffer) + 1
          /\ buffer'[Len(buffer')].url = todo[total'].url
          /\ buffer'[Len(buffer')].visited = 1
          /\ buffer'[Len(buffer')].skipped = 1
          /\ chunk' = chunk
          /\ total' < Len(todo) => pc' \in {"loop", "ckpt_flush"}]_vars

\* an oversize topic was recorded as skipped and the next topic became a document
C20_Witness ==
    /\ total = 2
    /\ Len(buffer) = 2
    /\ forum.prof[buffer[1].url.t].big
    /\ buffer[1].visited = 1 /\ buffer[1].skipped = 1
    /\ buffer[2].skipped = 0
    /\ DocUrls(chunk) = {buffer[2].url}

\* the text of the pages fetched and parsed
RECURSIVE TextOf(_)
TextOf(pages) ==
    IF pages = <<>> THEN <<>> ELSE PageText(PagePosts(Head(pages))) \o TextOf(Tail(pages))

\* what the worker returns for the topic when _get_item_text returns text
WorkerResult(text) ==
    ProcessText(TopicUrl(wtopic), [tuple |-> TRUE, text |-> text, title |-> "page"])

\* C21: when the request of page k >= 2 of a topic fails, the page loop ends
\* and the text of pages 1..k-1 is returned; if its stripped form is longer
\* than MIN_LEN_TXT the coordinator adds a document and buffers the topic with
\* visited = 1, skipped = 0, which removes it from the work of a later run.
C21_PartialTopic ==
    [][(wpc = "loop" /\ wpc' = "done" /\ wgets' = wgets + 1) =>
          /\ wtext' = TextOf(wpages)
          /\ wpages' = wpages
          /\ LET r == WorkerResult(wtext')
                 isDoc == IsDocument(r.txt)
                 row == [url |-> TopicUrl(wtopic), title |-> "page"]
             IN Len(Strip(wtext')) > MinLenTxt =>
                  /\ isDoc
                  /\ r.txt = Strip(TextOf(wpages))
                  /\ VisitTemp(isDoc, r.meta)
                       = <<[url |-> row.url, title |-> "page", visited |-> 1, skipped |-> 0]>>
                  /\ GetUrlsToScrap(<<row>>, VisitTemp(isDoc, r.meta)) = <<>>]_vars

\* the request of the third page failed after two pages were collected, and
\* their text is long enough for a document
C21_Witness ==
    /\ wpc = "done"
    /\ Len(wpages) = 2
    /\ wgets = 3
    /\ wtext = TextOf(wpages)
    /\ IsDocument(WorkerResult(wtext).txt)

\* the stripped text of the topic at url
StrippedText(url) == Strip(GetItemText(url).text)

\* C22: a drained topic becomes a document iff its stripped text is longer
\* than MIN_LEN_TXT; otherwise (length MIN_LEN_TXT or less, or empty) no
\* document is added and the topic is recorded as skipped with reason 'error'.
C22_MinimumLength ==
    [][(pc = "loop" /\ total' = total + 1) =>
          LET url == todo[total'].url IN
          /\ chunk' # chunk <=> Len(StrippedText(url)) > MinLenTxt
          /\ chunk' = chunk =>
                /\ buffer'[Len(buffer')].url = url
                /\ buffer'[Len(buffer')].skipped = 1
                /\ meta'.skip = "error"]_vars

\* the verdict of robots.txt on the href of the filter call
RobotsAllows == can_fetch(farg.href, farg.disallow)

\* C23: the filter keeps an href iff (the allow list is empty or one of its
\* entries occurs in the href) and (the deny list is empty or none of its
\* entries occurs in the href) and (robots.txt allows the href or force_crawl).
C23_FilterPredicate ==
    fres.done =>
        (fres.keep <=>
            /\ farg.whitelist = {} \/ \E a \in farg.whitelist : a \in HrefParts(farg.href)
            /\ farg.blacklist = {} \/ ~\E d \in farg.blacklist : d \in HrefParts(farg.href)
            /\ RobotsAllows \/ farg.force)

\* an href that is on the allow list and on the deny list, allowed by robots.txt, was dropped
C23_Witness ==
    /\ fres.done
    /\ ~fres.keep
    /\ \E a \in farg.whitelist : a \in HrefParts(farg.href)
    /\ \E d \in farg.blacklist : d \in HrefParts(farg.href)
    /\ RobotsAllows

\* the topic URLs the sitemap yields under the topic filter
SitemapUrls ==
    {TopicUrl(t) : t \in {k \in Topics :
        /\ forum.sitemap
        /\ KeepHref(TopicUrl(k), topics_whitelist, topics_blacklist, Disallow, forceCrawl)}}

\* the topics the HTML crawl finds
CrawledTopics ==
    {[url |-> UrlReturn(Anchor(t).href), title |-> Anchor(t).text] : t \in {k \in Topics :
        KeepHref(Anchor(k).href, topics_whitelist, topics_blacklist, Disallow, forceCrawl)}}

\* C24: without a topics table on disk, discovery takes the topics of the
\* HTML crawl when the sitemap yields no topic URL, and exactly the sitemap's
\* URLs (no crawled topic) when the sitemap yields at least one.
C24_SitemapFallback ==
    [][(pc = "start" /\ pc' # "start" /\ topicsFile = <<>>) =>
          IF SitemapUrls = {}
          THEN Range(forum_topics') = CrawledTopics
          ELSE Range(forum_topics') = {[url |-> u, title |-> ""] : u \in SitemapUrls}]_vars

\* the forum has a sitemap whose topic URLs are all filtered out, and the
\* topics table holds the topics the crawl found
C24_Witness ==
    /\ pc = "crawled"
    /\ runs = 0
    /\ forum.sitemap
    /\ SitemapUrls = {}
    /\ forum_topics # <<>>
    /\ Range(forum_topics) = CrawledTopics
    /\ topicsFile = forum_topics

\* the topics table discovery would build from the forum as it is now
DiscoveredNow ==
    IF SitemapUrls # {} THEN {[url |-> u, title |-> ""] : u \in SitemapUrls} ELSE CrawledTopics

\* C25: with a non-empty topics table on disk, start_crawler keeps the loaded
\* table - same URLs and titles in the same order, as read_csv reads them - in
\* memory and leaves the file as it is,
\* whatever the sitemap or the pages of the forum would yield.
C25_ExistingTableKept ==
    [][(pc = "start" /\ pc' # "start" /\ topicsFile # <<>>) =>
          /\ forum_topics' = read_csv(topicsFile)
          /\ topicsFile' = topicsFile
          /\ pc' = "crawled"]_vars

\* a loaded table that differs from what discovery would find was kept
C25_Witness ==
    /\ pc = "crawled"
    /\ forum_topics = read_csv(topicsFile)
    /\ Len(forum_topics) = 2
    /\ DiscoveredNow # {}
    /\ Range(forum_topics) # DiscoveredNow

\* the robots.txt the run has read lists sitemaps
RobotsListsSitemaps == farg.check_robots /\ farg.robots.site_maps # <<>>

\* C26: the sitemap search is seeded by the operator's sitemap override when one is
\* configured, otherwise by a sitemap listed in robots.txt, otherwise by the base
\* URL; a configured override wins over the sitemaps of robots.txt.
C26_SeedPrecedence ==
    fres.pos = "crawler" =>
        IF farg.sitemaps # <<>> THEN fres.sitemaps_url = farg.sitemaps
        ELSE IF RobotsListsSitemaps
             THEN \E i \in DOMAIN farg.robots.site_maps : fres.sitemaps_url = farg.robots.site_maps[i]
             ELSE fres.sitemaps_url = main_site

\* ConfigManager.__init__ has returned (the run was not left through exit())
Configured == fres.pos \in {"configured", "crawler"}

\* C27: the inter-request delay is the Crawl-delay of robots.txt when present,
\* otherwise the Request-rate's seconds / requests when a rate is present,
\* otherwise the configured delay (TIME_SLEEP is kept in hundredths of a second).
C27_EffectiveDelay ==
    Configured =>
        IF farg.check_robots /\ farg.robots.delay # 0
        THEN fres.settings.TIME_SLEEP = 100 * farg.robots.delay
        ELSE IF farg.check_robots /\ farg.robots.rate # NoRate
             THEN fres.settings.TIME_SLEEP * farg.robots.rate.requests = 100 * farg.robots.rate.seconds
             ELSE fres.settings.TIME_SLEEP = farg.time_sleep

\* _scrap_txt_mp: the number of processes of the pool
PoolProcesses == fres.settings.PROCESSES

\* the robots.txt the run has read gives a request rate or a crawl delay
RobotsPaces == farg.check_robots /\ (farg.robots.rate # NoRate \/ farg.robots.delay # 0)

GloballyDenied == farg.check_robots /\ farg.robots.deny /\ ~farg.force_crawl

\* C29: when robots.txt disallows the dataset URL and force_crawl is false the run
\* ends inside the robots check: no seed is chosen, no discovery starts and
\* neither the topics table, the visited table nor a shard is written; with
\* force_crawl true or with the robots check disabled the run never ends there.
C29_GlobalDenial ==
    /\ GloballyDenied =>
           /\ fres.pos \in {"new", "settings", "exited"}
           /\ fres.sitemaps_url = NoSeed
           /\ pc = "off"
           /\ forum_topics = <<>>
           /\ topicsFile = <<>> /\ visitedFile = <<>> /\ shards = <<>>
    /\ fres.pos = "exited" => GloballyDenied
    /\ fres.pos = "crawler" => ~GloballyDenied /\ pc # "off"

C29_Witness ==
    /\ fres.pos = "exited"
    /\ farg.robots.deny
    /\ topicsFile = <<>>

\* C30: each of the nine effective lists (thread selectors, allow and deny, topic
\* selectors, allow and deny, pagination, title and body selectors) is the
\* engine's default list followed by the operator's entries.
C30_OverridesAppended ==
    fres.done =>
        \A n \in ListNames : fres.lists[n] = EngineDefaults(farg.engine)[n] \o farg.settings[n]

\* the title the topics table (the CSV file) carries for a URL
TableTitle(u) ==
    LET i == CHOOSE j \in DOMAIN topicsFile : topicsFile[j].url = u
    IN  topicsFile[i].title

\* the title _get_item_text extracts from the topic's first page
ExtractedTitle(u) == GetItemText(u).title

\* C31: when a document is added, meta.topic_title of the archive record and the
\* title of the visited row are the title of the topics table if that is not
\* empty, and the title extracted from the page if it is empty.
C31_TitleReconciliation ==
    [][(pc = "loop" /\ added' = added + 1) =>
          LET u == todo[total'].url
              title == IF TableTitle(u) # "" THEN TableTitle(u) ELSE ExtractedTitle(u)
          IN  /\ meta'.url = u
              /\ meta'.topic_title = title
              /\ chunk'[Len(chunk')].meta.topic_title = title
              /\ buffer'[Len(buffer')].title = title]_vars

\* the pagination selectors that resolve to an element on the page (for phpBB
\* with pagination-arrow: to an element with the arrow child)
Matching(soup, cfg) ==
    {i \in DOMAIN cfg.pagination : NextButton(cfg.pagination[i], soup.buttons[i], cfg) # <<>>}

\* the result taken from the element of selector i alone: its href, "no more
\* pages" when the href is empty or the current URL
FromSelector(i, url_now, soup, cfg) ==
    LET next_page == NextButton(cfg.pagination[i], soup.buttons[i], cfg)[1].href IN
    IF next_page.form = "missing" THEN [kind |-> "raise", href |-> NoLink]
    ELSE IF next_page = url_now \/ next_page = NoLink THEN [kind |-> "none", href |-> NoLink]
    ELSE [kind |-> "link", href |-> next_page]

\* C32: the result of the resolver is taken from the first pagination selector,
\* in list order, that resolves to an element; no later selector (and no
\* fallback) determines it.
C32_FirstSelectorWins ==
    (wprev # NoLink /\ wprev.start \in DOMAIN served) =>
        LET soup == served[wprev.start]
            matching == Matching(soup, wcfg)
        IN  matching # {} =>
                wlink = FromSelector(CHOOSE i \in matching : \A j \in matching : i <= j,
                                     wprev, soup, wcfg)

\* a resolver call for a phpBB page on which no pagination selector yields a link:
\* each selector finds no element, or one whose href is empty or the current URL
FallbackCall ==
    /\ wprev # NoLink
    /\ wprev.start \in DOMAIN served
    /\ wcfg.engine = "phpbb"
    /\ \A i \in Matching(served[wprev.start], wcfg) :
          FromSelector(i, wprev, served[wprev.start], wcfg).kind = "none"

\* the anchors of the page with start=, the f and t of the current URL and a
\* start above the current one
LaterPages ==
    {h \in served[wprev.start].anchors : h.f = wprev.f /\ h.t = wprev.t /\ h.start > wprev.start}

\* C33: when no pagination selector yields a link on a phpBB page, the resolver
\* returns the anchor with the same f and t whose start is the smallest one
\* strictly above the current start, and "no more pages" when there is none;
\* the start of a result is above the start of the page it was found on.
C33_QueryStringFallback ==
    FallbackCall =>
        IF LaterPages = {} THEN wlink.kind = "none"
        ELSE /\ wlink.kind = "link"
             /\ wlink.href \in LaterPages
             /\ \A g \in LaterPages : wlink.href.start <= g.start
             /\ wlink.href.start > wprev.start

\* on the first page of a topic the fallback chose between two later pages
C33_Witness ==
    /\ FallbackCall
    /\ Cardinality(LaterPages) >= 2
    /\ wlink.kind = "link"
    /\ wlink.href.start = 1
    /\ wprev.start = 0

\* C34: across runs, crashes and restarts over the same topics table the visited
\* table never holds two rows for one URL.
C34_OneRowPerUrl ==
    \A i, j \in DOMAIN visitedFile : visitedFile[i].url = visitedFile[j].url => i = j

\* a restarted run that loaded rows of the visited table and has written more
C34_Witness ==
    /\ runs >= 1
    /\ visited_topics # <<>>
    /\ Len(visitedFile) > Len(visited_topics)
    /\ buffer = <<>>

\* the URLs of the visited snapshot the workers get at pool start
SnapshotUrls == {visited_topics[i].url : i \in DOMAIN visited_topics}

\* C35: no URL submitted to the pool is in the visited snapshot of the workers;
\* no drained result has skip reason 'visited', and every drained result adds
\* exactly one row to the buffer of visited rows.
C35_VisitedUnreachable ==
    [][ /\ pc' \in SessionPcs => \A i \in DOMAIN todo' : todo'[i].url \notin SnapshotUrls'
        /\ (pc = "loop" /\ total' = total + 1) =>
              /\ ProcessItem(todo[total'].url, visited_topics).meta.skip # "visited"
              /\ meta'.skip # "visited"
              /\ Len(buffer') = Len(buffer) + 1
              /\ buffer'[Len(buffer')].url = todo[total'].url
      ]_vars

\* a restarted run with a non-empty snapshot has drained a result
C35_Witness ==
    /\ pc \in SessionPcs
    /\ SnapshotUrls # {}
    /\ total >= 1
    /\ meta.skip # "visited"
    /\ \E i \in DOMAIN buffer : buffer[i].url = meta.url

\* the URLs of the records of all shards
ShardUrls == UNION {DocUrls(shards[i]) : i \in DOMAIN shards}

\* C36: merge_archives leaves the shards as they are, and the final file it
\* writes - the first time and every time it runs again - holds one record for
\* each URL of the shards, in whatever order the shards are read: the same
\* set of URLs and the same count for the same shards.
C36_MergeRepeatable ==
    [][(pc = "scraped" /\ pc' = "merged") =>
          /\ shards' = shards
          /\ DocUrls(merged') = ShardUrls
          /\ Len(merged') = Cardinality(ShardUrls)
          /\ merge_ret'.total_docs = Cardinality(ShardUrls)
          /\ (manifest.written /\ shards # <<>> /\ DocUrls(merged) = ShardUrls) =>
                (DocUrls(merged') = DocUrls(merged) /\ Len(merged') = Len(merged))]_vars

\* the pipeline was run again after it had finished, and merge_archives has
\* replaced the final file of the first run
C36_Witness ==
    /\ pc = "merged"
    /\ runs >= 1
    /\ manifest.written
    /\ merged # <<>>
    /\ shards # <<>>

\* C37: the header of the visited table is written only when the file is
\* created - once, before any row - and every checkpoint flush and the final
\* flush append their rows: the header and the rows written before stay as
\* they were.
C37_AppendOnlyVisited ==
    [][/\ (visitedHeader' # visitedHeader) =>
              /\ visitedHeader = <<>>
              /\ visitedHeader' = <<VisitedColumns>>
              /\ visitedFile = <<>> /\ visitedFile' = <<>>
       /\ (pc \in {"ckpt_flush", "final_flush"} /\ pc' \in {"ckpt_commit", "scraped"}) =>
              /\ visitedHeader = <<VisitedColumns>>
              /\ visitedHeader' = visitedHeader
              /\ Len(visitedFile') = Len(visitedFile) + Len(buffer)
              /\ SubSeq(visitedFile', 1, Len(visitedFile)) = visitedFile
       /\ (visitedFile' # visitedFile) => pc \in {"ckpt_flush", "final_flush"}]_vars

\* a session that started on a table with rows has processed a topic and
\* flushed its row behind them
C37_Witness ==
    /\ pc = "scraped"
    /\ visited_topics # <<>>
    /\ total >= 1
    /\ Len(visitedFile) > Len(visited_topics)
    /\ visitedHeader = <<VisitedColumns>>

\* the rows of a visited table that stand for a document
DocumentRows(rows) == Cardinality({i \in DOMAIN rows : rows[i].visited = 1 /\ rows[i].skipped = 0})

====
